---- MODULE Spec2Model ----
(***************************************************************************)
(* Tool-call orchestration of the DevOps agent: the three backends'        *)
(* parse_tool_calls (ollama_backend.py, llamacpp_backend.py,               *)
(* openrouter_backend.py) and the guardrail of DevOpsAgent                 *)
(* (agent.py, execute_tool_call) inside the agent's step loop.             *)
(* OpenRouterChat.generate (openrouter_backend.py) with its rate limiter   *)
(* and its retry loop is a specification of its own (SendSpec).            *)
(*                                                                         *)
(* A reply text is a sequence of lexemes (tokens).  White space between    *)
(* lexemes is not represented: every place where the code meets it is a    *)
(* \s* of a pattern, a .strip() or json.loads, all of which skip it.       *)
(* A string value is a sequence of pieces, so that braces inside a string are   *)
(* counted the way str.count counts them.                                  *)
(***************************************************************************)
EXTENDS Integers, Sequences, FiniteSets, TLC

VARIABLES
    p_text,         \* parser harness: the reply text handed to parse_tool_calls
    p_backend,      \* parser harness: the backend whose parser ran ("none" before)
    p_out,          \* parser harness: what that parse_tool_calls call produced
    backend,        \* agent.model: the backend the agent was built with
    status,         \* state of the current run
    step_number,    \* turns taken in the current run
    memory,         \* agent.memory.steps of the current run
    last_tool_call, \* DevOpsAgent.last_tool_call
    runs,           \* number of agent.run calls made on this agent instance
    last_turn,      \* history: what the most recent turn did
    clock,          \* OpenRouterChat.generate: time.time(), in seconds
    last_request_time, \* OpenRouterChat.last_request_time
    s_pc,           \* where the current generate call stands
    attempt,        \* the attempt variable of generate's retry loop
    s_result,       \* what the most recent generate call returned or raised
    sends,          \* number of generate calls made on this backend object
    s_log,          \* history: the requests, responses and sleeps of the channel
    c_conv,         \* the conversation (list of messages) the caller hands to generate
    c_backend,      \* the backend whose generate ran last ("none" before)
    c_payload,      \* the wire messages of the most recent generate call
    approval,       \* whether REQUIRE_APPROVAL is set and what the user would answer
    h_in,           \* function harness: the arguments a function is applied to
    h_out           \* function harness: what the function returned (NotApplied before)

vars == <<p_text, p_backend, p_out, backend, status, step_number, memory,
          last_tool_call, runs, last_turn, clock, last_request_time, s_pc,
          attempt, s_result, sends, s_log, c_conv, c_backend, c_payload, approval,
          h_in, h_out>>

parseVars == <<p_text, p_backend, p_out, h_in, h_out>>
agentVars == <<backend, status, step_number, memory, last_tool_call, runs, last_turn,
               approval>>
sendVars == <<clock, last_request_time, s_pc, attempt, s_result, sends, s_log,
              c_conv, c_backend, c_payload>>

-----------------------------------------------------------------------------
(* Bounds *)

\* segments (blocks or stretches of prose) in one reply
MaxSegments == 2
\* step budget of a run (max_steps)
MaxSteps == 2
\* agent.run calls on one agent instance
MaxRuns == 2
\* generate calls on one backend object
MaxSends == 2
\* seconds the caller lets pass between two generate calls, when any
MaxIdle == 4
\* seconds the backend takes to answer a request, when not at once
MaxLatency == 1

-----------------------------------------------------------------------------
(* Lexemes of a reply *)

Tok(t, k, v) == [t |-> t, k |-> k, v |-> v]

TO == Tok("<tool_call>", "", <<>>)
TC == Tok("</tool_call>", "", <<>>)
\* the opening of a fenced JSON block (three backquotes and json)
FO == Tok("fence_json", "", <<>>)
\* three backquotes
FC == Tok("fence", "", <<>>)
LB == Tok("{", "", <<>>)
RB == Tok("}", "", <<>>)
\* "name": "<n>"
NameTok(n) == Tok("name", n, <<>>)
\* "arguments":
ArgsKey == Tok("arguments", "", <<>>)
\* "<k>": "<v>", v given as its pieces
KV(k, v) == Tok("kv", k, v)
\* a JSON value that is not an object, e.g. [1]
ARR == Tok("list", "", <<>>)
\* prose
TXT == Tok("text", "", <<>>)
\* name( ... ) of the inline syntax
Ident(n) == Tok("ident", n, <<>>)
LP == Tok("(", "", <<>>)
RP == Tok(")", "", <<>>)

Min(S) == CHOOSE x \in S : \A y \in S : x <= y
Max(S) == CHOOSE x \in S : \A y \in S : x >= y

RECURSIVE CountIn(_, _)
\* occurrences of the character ch in the pieces of a string value
CountIn(v, ch) ==
    IF v = <<>> THEN 0
    ELSE (IF Head(v) = ch THEN 1 ELSE 0) + CountIn(Tail(v), ch)

RECURSIVE Count(_, _)
\* str.count(ch), ch an opening or a closing brace
Count(s, ch) ==
    IF s = <<>> THEN 0
    ELSE (IF Head(s).t = ch THEN 1
          ELSE IF Head(s).t = "kv" THEN CountIn(Head(s).v, ch)
          ELSE 0) + Count(Tail(s), ch)

RECURSIVE Repeat(_, _)
\* the string made of n copies of a lexeme
Repeat(tok, n) == IF n <= 0 THEN <<>> ELSE <<tok>> \o Repeat(tok, n - 1)

-----------------------------------------------------------------------------
(* json.loads on a lexeme sequence *)

JsonFail == [ok |-> FALSE, isObj |-> FALSE, hasName |-> FALSE, name |-> "",
             hasArgs |-> FALSE, args |-> <<>>]
EmptyObj == [ok |-> TRUE, isObj |-> TRUE, hasName |-> FALSE, name |-> "",
             hasArgs |-> FALSE, args |-> <<>>]
JsonList == [ok |-> TRUE, isObj |-> FALSE, hasName |-> FALSE, name |-> "",
             hasArgs |-> FALSE, args |-> <<>>]

RECURSIVE ScanPairs(_, _, _)
\* members of the arguments object from position i on: the pairs read, in
\* text order, and the position of the closing brace (0: not a JSON object)
ScanPairs(s, i, acc) ==
    IF i > Len(s) THEN [close |-> 0, pairs |-> acc]
    ELSE IF s[i].t = "}" THEN [close |-> i, pairs |-> acc]
    ELSE IF s[i].t = "kv"
         THEN ScanPairs(s, i + 1, Append(acc, [k |-> s[i].k, v |-> s[i].v]))
    ELSE [close |-> 0, pairs |-> acc]

RECURSIVE ScanTop(_, _, _)
\* members of the top-level object from position i on; text after the
\* closing brace is "Extra data", a missing closing brace is a decode error
ScanTop(s, i, acc) ==
    IF i > Len(s) THEN JsonFail
    ELSE IF s[i].t = "}" THEN (IF i = Len(s) THEN acc ELSE JsonFail)
    ELSE IF s[i].t = "name"
         THEN ScanTop(s, i + 1, [acc EXCEPT !.hasName = TRUE, !.name = s[i].k])
    ELSE IF s[i].t = "kv" THEN ScanTop(s, i + 1, acc)
    ELSE IF s[i].t = "arguments"
         THEN IF i + 1 <= Len(s) /\ s[i + 1].t = "{"
              THEN LET r == ScanPairs(s, i + 2, <<>>)
                   IN IF r.close = 0 THEN JsonFail
                      ELSE ScanTop(s, r.close + 1,
                                   [acc EXCEPT !.hasArgs = TRUE, !.args = r.pairs])
              ELSE JsonFail
    ELSE JsonFail

JsonLoads(s) ==
    IF s = <<>> THEN JsonFail
    ELSE IF s[1].t = "list" THEN (IF Len(s) = 1 THEN JsonList ELSE JsonFail)
    ELSE IF s[1].t = "{" THEN ScanTop(s, 2, EmptyObj)
    ELSE JsonFail

-----------------------------------------------------------------------------
(* The patterns of parse_tool_calls *)

RECURSIVE GreedyTagged(_, _)
\* re.finditer(r"<tool_call>\s*(.*)\s*</tool_call>", text, re.DOTALL),
\* group 1 of each match: the match starts at the first <tool_call> and,
\* '.*' being greedy, ends at the last </tool_call> of the text
GreedyTagged(s, from) ==
    LET opens  == {i \in from..Len(s) : s[i].t = "<tool_call>"}
        closes == {j \in from..Len(s) : s[j].t = "</tool_call>"}
    IN IF opens = {} \/ closes = {} THEN <<>>
       ELSE LET i == Min(opens)
                j == Max(closes)
            IN IF j < i THEN <<>>
               ELSE <<SubSeq(s, i + 1, j - 1)>> \o GreedyTagged(s, j + 1)

\* end of the shortest "\{.*?\}\s*<closer>" that starts right after position
\* i: the position of the '}' (0: no match starts at i)
LazyEnd(s, i, closers) ==
    IF i + 1 > Len(s) \/ s[i + 1].t # "{" THEN 0
    ELSE LET ends == {j \in (i + 2)..(Len(s) - 1) :
                         s[j].t = "}" /\ s[j + 1].t \in closers}
         IN IF ends = {} THEN 0 ELSE Min(ends)

RECURSIVE LazyBlocks(_, _, _, _)
\* re.finditer(r"<opener>\s*(\{.*?\})\s*<closer>", text, re.DOTALL), group 1
\* of each match; the search resumes after the closer of the previous match
LazyBlocks(s, from, opener, closers) ==
    LET starts == {i \in from..Len(s) :
                      s[i].t = opener /\ LazyEnd(s, i, closers) # 0}
    IN IF starts = {} THEN <<>>
       ELSE LET i == Min(starts)
                j == LazyEnd(s, i, closers)
            IN <<SubSeq(s, i + 1, j)>> \o LazyBlocks(s, j + 2, opener, closers)

\* r"<tool_call>\s*(\{.*?\})\s*</tool_call>"
LazyTagged(s) == LazyBlocks(s, 1, "<tool_call>", {"</tool_call>"})

\* the fenced pattern: fence_json \s* (\{.*?\}) \s* fence; the closing three
\* backquotes also match the first three characters of a following fence_json
FencedBlocks(s) == LazyBlocks(s, 1, "fence_json", {"fence", "fence_json"})

-----------------------------------------------------------------------------
(* parse_tool_calls *)

\* ChatToolCall(function=FunctionCall(name, arguments)); arguments is the
\* decoded object as its (key, value) pairs in text order; src records the
\* syntax the call was read from (history only, not part of the call)
Call(name, args, src) == [name |-> name, arguments |-> args, src |-> src]

IsFinal(c) == c.name = "final_answer"

\* AUTO-FIX: append the closing braces the counts say are missing
AutoFix(json_str) ==
    LET open_braces  == Count(json_str, "{")
        close_braces == Count(json_str, "}")
    IN IF open_braces > close_braces
       THEN json_str \o Repeat(RB, open_braces - close_braces)
       ELSE json_str

\* a loop body that lets the JSONDecodeError out
TaggedCall_NoExcept(json_str) ==
    LET d == JsonLoads(json_str)
    IN IF ~d.ok \/ ~d.isObj THEN [raised |-> TRUE, calls |-> <<>>]
       ELSE [raised |-> FALSE,
             calls  |-> <<Call(IF d.hasName THEN d.name ELSE "unknown",
                               IF d.hasArgs THEN d.args ELSE <<>>,
                               "tagged")>>]

\* body of the loop over the tagged matches: json.loads, then
\* tool_data.get("name", "unknown") and tool_data.get("arguments", {}).
\* A JSONDecodeError is caught (continue); a decoded value that is not an
\* object has no .get and the AttributeError leaves parse_tool_calls
TaggedCall(json_str) ==
    LET d == JsonLoads(json_str)
    IN IF ~d.ok THEN [raised |-> FALSE, calls |-> <<>>]
       ELSE IF ~d.isObj THEN [raised |-> TRUE, calls |-> <<>>]
       ELSE [raised |-> FALSE,
             calls  |-> <<Call(IF d.hasName THEN d.name ELSE "unknown",
                               IF d.hasArgs THEN d.args ELSE <<>>,
                               "tagged")>>]

RECURSIVE TaggedCalls(_, _)
\* the loop over the tagged matches; fix: the backend applies AutoFix
TaggedCalls(matches, fix) ==
    IF matches = <<>> THEN [raised |-> FALSE, calls |-> <<>>]
    ELSE LET one  == TaggedCall(IF fix THEN AutoFix(Head(matches))
                                ELSE Head(matches))
             rest == TaggedCalls(Tail(matches), fix)
         IN IF one.raised THEN one
            ELSE [raised |-> rest.raised,
                  calls  |-> IF rest.raised THEN <<>> ELSE one.calls \o rest.calls]

\* body of the loop over the fenced matches: kept only when the decoded
\* object has both a "name" and an "arguments" member
FencedCall(json_str) ==
    LET d == JsonLoads(json_str)
    IN IF d.ok /\ d.isObj /\ d.hasName /\ d.hasArgs
       THEN <<Call(d.name, d.args, "fenced")>>
       ELSE <<>>

RECURSIVE FencedCalls(_)
FencedCalls(matches) ==
    IF matches = <<>> THEN <<>>
    ELSE FencedCall(Head(matches)) \o FencedCalls(Tail(matches))

\* a SAFETY step that removes final_answer whenever it is present
StripFinalAnswer_Always(calls) == SelectSeq(calls, LAMBDA c : ~IsFinal(c))

\* SAFETY: if final_answer is present with other tools, remove it
StripFinalAnswer(calls) ==
    LET has_final_answer == \E i \in 1..Len(calls) : IsFinal(calls[i])
        has_other_tools  == \E i \in 1..Len(calls) : ~IsFinal(calls[i])
    IN IF has_final_answer /\ has_other_tools
       THEN SelectSeq(calls, LAMBDA c : ~IsFinal(c))
       ELSE calls

\* what a parse_tool_calls call produces: message.tool_calls (kind "ok"), or
\* the exception that leaves it; candidates: the calls before the SAFETY step
Returned(cands) == [kind |-> "ok", calls |-> StripFinalAnswer(cands), candidates |-> cands]
Raised(e) == [kind |-> e, calls |-> <<>>, candidates |-> <<>>]

\* "if not calls:" then the fenced blocks are tried
WithFallback(tagged, text) ==
    IF tagged = <<>> THEN FencedCalls(FencedBlocks(text)) ELSE tagged

\* OllamaChat.parse_tool_calls
ParseOllama(text) ==
    LET xml_matches == GreedyTagged(text, 1)
    IN IF Len(xml_matches) > 1 THEN Raised("ValueError")
       ELSE LET t == TaggedCalls(xml_matches, TRUE)
            IN IF t.raised THEN Raised("AttributeError")
               ELSE Returned(WithFallback(t.calls, text))

\* LlamaCppChat.parse_tool_calls
ParseLlamaCpp(text) ==
    LET xml_matches == GreedyTagged(text, 1)
    IN IF Len(xml_matches) > 1 THEN Raised("ValueError")
       ELSE LET t == TaggedCalls(xml_matches, FALSE)
            IN IF t.raised THEN Raised("AttributeError")
               ELSE Returned(WithFallback(t.calls, text))

\* OpenRouterChat.parse_tool_calls
ParseOpenRouter(text) ==
    LET t == TaggedCalls(LazyTagged(text), FALSE)
    IN IF t.raised THEN Raised("AttributeError")
       ELSE Returned(WithFallback(t.calls, text))

Backends == {"ollama", "llamacpp", "openrouter"}

parse_tool_calls(b, text) ==
    IF b = "ollama" THEN ParseOllama(text)
    ELSE IF b = "llamacpp" THEN ParseLlamaCpp(text)
    ELSE ParseOpenRouter(text)

-----------------------------------------------------------------------------
(* The replies the model may produce *)

Pair(k, v) == [k |-> k, v |-> v]
Invocation(name, args) == [name |-> name, arguments |-> args]

BashLs     == Invocation("bash", <<Pair("command", <<"ls">>)>>)
\* a command with an unbalanced opening brace inside the string
BashBrace  == Invocation("bash", <<Pair("command", <<"echo", "{">>)>>)
WriteAB    == Invocation("write_file", <<Pair("content", <<"x">>), Pair("path", <<"f">>)>>)
\* the same mapping with its keys in the other order
WriteBA    == Invocation("write_file", <<Pair("path", <<"f">>), Pair("content", <<"x">>)>>)
FinalDone  == Invocation("final_answer", <<Pair("answer", <<"done">>)>>)
\* a tool that is not registered
Frobnicate == Invocation("frobnicate", <<>>)

Invocations == {BashLs, BashBrace, WriteAB, WriteBA, FinalDone, Frobnicate}

RECURSIVE KVs(_)
KVs(args) == IF args = <<>> THEN <<>> ELSE <<KV(Head(args).k, Head(args).v)>> \o KVs(Tail(args))

\* {"name": "<name>", "arguments": {...}}
Body(inv) == <<LB, NameTok(inv.name), ArgsKey, LB>> \o KVs(inv.arguments) \o <<RB, RB>>

\* the body with its last n closing braces cut off
Truncated(inv, n) == SubSeq(Body(inv), 1, Len(Body(inv)) - n)

\* the two closing braces of a body are the ones that can be cut off
Truncations == 1..2

WellFormedBodies == {Body(inv) : inv \in Invocations}
TruncatedBodies  == {Truncated(inv, n) : inv \in Invocations, n \in Truncations}
\* prose, a JSON list, and an object without "arguments"
OtherBodies      == {<<TXT>>, <<ARR>>, <<LB, NameTok("bash"), RB>>}
Bodies == WellFormedBodies \cup TruncatedBodies \cup OtherBodies

Tagged(body) == <<TO>> \o body \o <<TC>>
Fenced(body) == <<FO>> \o body \o <<FC>>
Inline(inv)  == <<Ident(inv.name), LP, LB>> \o KVs(inv.arguments) \o <<RB, RP>>

Segments ==
    {Tagged(b) : b \in Bodies} \cup {Fenced(b) : b \in Bodies}
        \cup {Inline(inv) : inv \in Invocations} \cup {<<TXT>>}

RECURSIVE Texts(_, _)
\* the texts made of at most n segments of S
Texts(S, n) ==
    IF n = 0 THEN {<<>>}
    ELSE LET shorter == Texts(S, n - 1)
         IN shorter \cup {r \o seg : r \in shorter, seg \in S}

Replies == Texts(Segments, MaxSegments)

-----------------------------------------------------------------------------
(* DevOpsAgent.execute_tool_call: the guardrail *)

NoOut == [kind |-> "none", calls |-> <<>>, candidates |-> <<>>]
\* no function applied yet
NotApplied == [fn |-> "none"]
HarnessIdle == h_in = <<>> /\ h_out = NotApplied
\* Python's None, where the other values are sequences
None == <<>>
NoTurn == [kind |-> "none", parse |-> "none", log |-> <<>>, ltc_before |-> None,
           prev_call |-> <<>>, tagged |-> 0, error |-> None, report |-> None,
           asked |-> <<>>]

\* alphabetical rank of the argument keys, the order json.dumps(sort_keys=True)
\* writes them in
KeyRank(k) ==
    CASE k = "answer"  -> 1
      [] k = "command" -> 2
      [] k = "content" -> 3
      [] k = "key"     -> 4
      [] k = "path"    -> 5
      [] OTHER         -> 6

\* a member of a dict whose value is itself a dict, d its members in text order
Nested(k, d) == [k |-> k, d |-> d]
IsNested(pair) == "d" \in DOMAIN pair

RECURSIVE SortKeys_TopLevel(_)
\* a serialization that orders the keys of the outermost dict only
SortKeys_TopLevel(pairs) ==
    IF pairs = <<>> THEN <<>>
    ELSE LET lo == CHOOSE i \in 1..Len(pairs) :
                       \A j \in 1..Len(pairs) : KeyRank(pairs[i].k) <= KeyRank(pairs[j].k)
         IN <<pairs[lo]>> \o
            SortKeys_TopLevel(SubSeq(pairs, 1, lo - 1) \o SubSeq(pairs, lo + 1, Len(pairs)))

RECURSIVE SortKeys(_)
\* the pairs of a dict in the order of their keys, the dicts among the values
\* written the same way
SortKeys(pairs) ==
    IF pairs = <<>> THEN <<>>
    ELSE LET lo == CHOOSE i \in 1..Len(pairs) :
                       \A j \in 1..Len(pairs) : KeyRank(pairs[i].k) <= KeyRank(pairs[j].k)
             first == IF IsNested(pairs[lo])
                      THEN Nested(pairs[lo].k, SortKeys(pairs[lo].d))
                      ELSE pairs[lo]
         IN <<first>> \o
            SortKeys(SubSeq(pairs, 1, lo - 1) \o SubSeq(pairs, lo + 1, Len(pairs)))

\* json.dumps without sort_keys: the keys in the order of the reply
Signature_NoSort(tool_name, arguments) == <<tool_name, arguments>>

\* json.dumps({"tool": tool_name, "args": arguments}, sort_keys=True)
Signature(tool_name, arguments) == <<tool_name, SortKeys(arguments)>>

\* the repetition check
IsRepetition(last, current_call_signature, tool_name) ==
    last = current_call_signature /\ tool_name # "final_answer"

\* an update that does not spare final_answer
UpdateLast_Always(last, current_call_signature, tool_name) == current_call_signature

\* "Update last tool call (but not for final_answer)"
UpdateLast(last, current_call_signature, tool_name) ==
    IF tool_name # "final_answer" THEN current_call_signature ELSE last

\* a count that does not leave final_answer out
CountNonFinal_All(names) == Len(names)

RECURSIVE CountNonFinal(_)
\* the inner loop of the count: the calls of one step that are not final_answer
CountNonFinal(names) ==
    IF names = <<>> THEN 0
    ELSE (IF Head(names) # "final_answer" THEN 1 ELSE 0) + CountNonFinal(Tail(names))

RECURSIVE ActualToolCalls(_)
\* actual_tool_calls: the non-final_answer tool calls recorded in memory.steps
ActualToolCalls(steps) ==
    IF steps = <<>> THEN 0
    ELSE CountNonFinal(Head(steps).tool_calls) + ActualToolCalls(Tail(steps))

\* final_answer with no recorded tool call
IsHallucination(tool_name, steps) ==
    tool_name = "final_answer" /\ ActualToolCalls(steps) = 0

\* the tools the agent is built with, and final_answer which every agent has
Tools == {"read_file", "write_file", "bash", "get_env", "final_answer"}

\* super().execute_tool_call: the tool is looked up and run
ParentExecute(tool_name, toolRes) ==
    IF tool_name \notin Tools THEN "unknown_tool"
    ELSE IF tool_name = "final_answer" THEN "final"
    ELSE IF toolRes = "raise" THEN "tool_error"
    ELSE "executed"

\* a guardrail that remembers a call only once its tool has run
execute_tool_call_UpdateAfterRun(c, last, steps, toolRes) ==
    LET sig == Signature(c.name, c.arguments)
    IN IF IsRepetition(last, sig, c.name)
       THEN [outcome |-> "REPETITION", last |-> last]
       ELSE IF IsHallucination(c.name, steps)
            THEN [outcome |-> "HALLUCINATION", last |-> last]
            ELSE [outcome |-> ParentExecute(c.name, toolRes),
                  last    |-> IF ParentExecute(c.name, toolRes) = "executed"
                              THEN UpdateLast(last, sig, c.name) ELSE last]

\* execute_tool_call(tool_name, arguments): how the call ends and the new
\* value of self.last_tool_call
execute_tool_call(c, last, steps, toolRes) ==
    LET sig == Signature(c.name, c.arguments)
    IN IF IsRepetition(last, sig, c.name)
       THEN [outcome |-> "REPETITION", last |-> last]
       ELSE IF IsHallucination(c.name, steps)
            THEN [outcome |-> "HALLUCINATION", last |-> UpdateLast(last, sig, c.name)]
            ELSE [outcome |-> ParentExecute(c.name, toolRes),
                  last    |-> UpdateLast(last, sig, c.name)]

\* the environment of a run as to approval: REQUIRE_APPROVAL unset or set,
\* and what the user would answer when asked
ApprovalSettings ==
    {[required |-> FALSE, policy |-> "approve"],
     [required |-> TRUE, policy |-> "approve"],
     [required |-> TRUE, policy |-> "reject"]}

\* REQUIRE_APPROVAL=0
NoApproval == [required |-> FALSE, policy |-> "approve"]

\* a gate that asks the user about every call when approval is required
ApprovalRequests_EveryCall(tool_name, required) == IF required THEN 1 ELSE 0

\* the approval requests DevOpsAgent makes for a call handed to
\* execute_tool_call: __init__ reads VERBOSE only and execute_tool_call goes
\* from the two checks to super().execute_tool_call without asking
ApprovalRequests(tool_name, required) == 0

\* the calls of a turn the user was asked about
RECURSIVE Asked(_, _)
Asked(log, required) ==
    IF log = <<>> THEN <<>>
    ELSE (IF ApprovalRequests(Head(log).name, required) > 0
          THEN <<Head(log).name>> ELSE <<>>) \o Asked(Tail(log), required)

-----------------------------------------------------------------------------
(* The step loop around the guardrail *)

\* a call's outcome that ends the processing of the step with an error
IsError(outcome) ==
    outcome \in {"REPETITION", "HALLUCINATION", "unknown_tool", "tool_error"}

RECURSIVE ExecAll(_, _, _, _, _)
\* the calls of one reply handed to execute_tool_call in order, until one
\* raises or the final answer is accepted.  prev: the most recent
\* non-final_answer call handed to execute_tool_call before (history)
ExecAll(calls, last, prev, steps, toolRes) ==
    IF calls = <<>> THEN [last |-> last, prev |-> prev, log |-> <<>>]
    ELSE LET c == Head(calls)
             r == execute_tool_call(c, last, steps, toolRes)
             entry == [name |-> c.name, arguments |-> c.arguments,
                       outcome |-> r.outcome, prev |-> prev]
             prev2 == IF IsFinal(c) THEN prev
                      ELSE <<[name |-> c.name, arguments |-> c.arguments]>>
         IN IF IsError(r.outcome) \/ r.outcome = "final"
            THEN [last |-> r.last, prev |-> prev2, log |-> <<entry>>]
            ELSE LET rest == ExecAll(Tail(calls), r.last, prev2, steps, toolRes)
                 IN [last |-> rest.last, prev |-> rest.prev,
                     log |-> <<entry>> \o rest.log]

RECURSIVE Names(_)
Names(calls) == IF calls = <<>> THEN <<>> ELSE <<Head(calls).name>> \o Names(Tail(calls))

\* the error of a step, None when there is none
StepError(log) ==
    IF log # <<>> /\ IsError(log[Len(log)].outcome) THEN log[Len(log)].outcome
    ELSE "None"

\* ActionStep: the tool calls of the reply, recorded before they are run, the
\* observations and the error
ActionStep(tool_calls, observations, error) ==
    [model_output |-> "reply", tool_calls |-> tool_calls,
     observations |-> observations, error |-> error]

\* a ChatMessage of the conversation
ChatMessage(role, content) == [role |-> role, content |-> content]

\* self.observations: None, or the text the tools of the step returned, a
\* string of characters
NoObservations == [given |-> FALSE, text |-> <<>>]
Observations(text) == [given |-> TRUE, text |-> text]

\* what a tool that ran returned
ToolOutput == <<"o", "k">>

Whitespace == {" "}

\* a strip that leaves the text as it is
Strip_Keep(text) == text

RECURSIVE Strip(_)
\* str.strip(): the text without its leading and trailing whitespace
Strip(text) ==
    IF text = <<>> THEN <<>>
    ELSE IF Head(text) \in Whitespace THEN Strip(Tail(text))
    ELSE IF text[Len(text)] \in Whitespace THEN Strip(SubSeq(text, 1, Len(text) - 1))
    ELSE text

\* the fixed text for a tool that returned nothing
NoOutputText == <<"Command executed successfully but returned no output.">>

\* a rendering that leaves the error of a step out
to_messages_NoError(step) ==
    (IF step.model_output # "None"
     THEN <<ChatMessage("assistant", <<step.model_output>>)>> ELSE <<>>)
        \o (IF step.observations.given
            THEN <<ChatMessage("tool-response",
                               <<"The value is: ">> \o Strip(step.observations.text))>>
            ELSE <<>>)

\* ActionStep.to_messages as patched (_qwen_friendly_to_messages): the
\* assistant's reply, the tool response when there are observations, the
\* error as a tool response when there is an error
to_messages(step) ==
    LET tool_name == IF step.tool_calls # <<>> THEN step.tool_calls[1]
                     ELSE "unknown_tool"
        reply == IF step.model_output # "None"
                 THEN <<ChatMessage("assistant", <<step.model_output>>)>>
                 ELSE <<>>
        observation_text == Strip(step.observations.text)
        obs   == IF step.observations.given
                 THEN IF tool_name # "final_answer" /\ observation_text = <<>>
                      THEN <<ChatMessage("tool-response", NoOutputText)>>
                      ELSE <<ChatMessage("tool-response",
                                         <<"The value is: ">> \o observation_text)>>
                 ELSE <<>>
        err   == IF step.error # "None"
                 THEN <<ChatMessage("tool-response",
                          (IF step.tool_calls # <<>> THEN <<"Call id:">> ELSE <<>>)
                              \o <<"Error:", step.error, "Now let's retry">>)>>
                 ELSE <<>>
    IN reply \o obs \o err

\* the backends an agent is built with (agent.py, tests/test_runner.py)
AgentBackends == {"ollama", "openrouter"}

LoopInvocations == {BashLs, WriteAB, WriteBA, FinalDone, Frobnicate}

LoopSegments ==
    {Tagged(Body(inv)) : inv \in LoopInvocations}
        \cup {Fenced(Body(inv)) : inv \in LoopInvocations}
        \cup {Tagged(<<TXT>>), Tagged(<<ARR>>), <<TXT>>}

\* the pairs of invocations a reply with two blocks holds: two different
\* tools, the same call twice, the final answer with another call, and an
\* unregistered tool first
TwoBlocks == {<<BashLs, WriteAB>>, <<BashLs, BashLs>>, <<FinalDone, BashLs>>,
              <<Frobnicate, BashLs>>}

\* the replies the agent's model gives: one segment, or two blocks of the
\* same syntax
LoopReplies ==
    LoopSegments
        \cup {Tagged(Body(p[1])) \o Tagged(Body(p[2])) : p \in TwoBlocks}
        \cup {Fenced(Body(p[1])) \o Fenced(Body(p[2])) : p \in TwoBlocks}

\* the tagged blocks opened in a reply
TaggedBlocks(reply) == Count(reply, "<tool_call>")

\* what parse_tool_calls makes of these replies, per backend, with the number
\* of tagged blocks the reply had
LoopParse ==
    [b \in AgentBackends |->
        {[tagged |-> TaggedBlocks(reply), out |-> parse_tool_calls(b, reply)] :
            reply \in LoopReplies}]

\* a step counter that skips the turns ending in an error
TurnsAfter_ErrorFree(n, error) == IF error = "None" THEN n + 1 ELSE n

\* turns taken after one more turn, whether or not the turn ended in an error
TurnsAfter(n, error) == n + 1

\* time.time() when the backend object is built: seconds since the epoch, far
\* more than rate_limit_delay after last_request_time = 0
StartOfTime == 10

NoResult == [kind |-> "none", status |-> "none", attempts |-> 0, content |-> "none"]
NoLog == [requests |-> <<>>, gaps |-> {}, responses |-> <<>>, sleeps |-> <<>>,
          waited |-> 0, done_at |-> 0]

\* rate_limit_delay, the spacing between requests
RateLimitDelay == 3
\* max_retries
MaxRetries == 5
\* base_delay
BaseDelay == 1
\* max_delay
MaxDelay == 60
\* the timeout of requests.post
RequestTimeout == 120

Exception(kind, st, n) ==
    [kind |-> kind, status |-> st, attempts |-> n, content |-> "backend message"]
RuntimeError(st, n) == Exception("RuntimeError", st, n)
Reply(c) == [kind |-> "reply", status |-> "200", attempts |-> 0, content |-> c]

\* what Ollama answers: 200 with a chat message, with a message that has no
\* content, with a "response" field, with neither, with a body that is not
\* JSON, a status that is not ok, or nothing within the timeout
OllamaResponses == {"200", "200_no_content", "200_response", "200_no_message",
                    "200_not_json", "429", "500", "timeout"}

\* OllamaChat.generate from the post on: no retry, requests.Timeout is not caught
OllamaResult(resp) ==
    CASE resp = "timeout" -> Exception("Timeout", "timeout", 0)
      [] resp \in {"429", "500"} -> RuntimeError(resp, 0)
      [] resp = "200_not_json" -> Exception("JSONDecodeError", "200", 0)
      [] resp = "200_no_content" -> Reply("")
      [] resp = "200_no_message" -> Reply("str(data)")
      [] OTHER -> Reply("content")

\* steps 3 and 4 of OpenRouterChat.generate for a response that is ok:
\* resp.json(), then the content of the first choice or str(data)
OpenRouterExtract(resp) ==
    CASE resp = "200" -> Reply("content")
      [] resp = "200_no_content" -> Reply("")
      [] resp = "200_no_choices" -> Reply("str(data)")
      [] OTHER -> Exception("JSONDecodeError", "200", 0)

\* the exceptions generate can raise, per backend of the agent: a status that
\* is not ok, a timeout, a 429 on the last attempt, a body that is not JSON
GenerateErrors ==
    [b \in AgentBackends |->
        IF b = "ollama"
        THEN {OllamaResult(resp) : resp \in OllamaResponses} \ {Reply("content"),
                 Reply(""), Reply("str(data)")}
        ELSE {RuntimeError("429", MaxRetries), RuntimeError("500", 0),
              RuntimeError("timeout", 0), OpenRouterExtract("200_not_json")}]

\* a loop that reports a failed model call in words of its own
FatalReport_Generic(e) == Exception("AgentError", "none", 0)

\* what the run reports when the model call raised e: e itself
FatalReport(e) == e

\* OpenRouterChat.__init__: no request made yet
ChannelIdle ==
    /\ clock = StartOfTime
    /\ last_request_time = 0
    /\ s_pc = "idle"
    /\ attempt = 0
    /\ s_result = NoResult
    /\ sends = 0
    /\ s_log = NoLog
    /\ c_backend = "none"
    /\ c_payload = <<>>

\* no generate call and no conversation to hand to one
SendIdle ==
    /\ ChannelIdle
    /\ c_conv = <<>>

Init ==
    /\ SendIdle
    /\ p_text = <<>>
    /\ p_backend = "none"
    /\ p_out = NoOut
    /\ HarnessIdle
    /\ backend \in AgentBackends
    /\ status = "idle"
    /\ step_number = 0
    /\ memory = <<>>
    /\ last_tool_call = None
    /\ runs = 0
    /\ last_turn = NoTurn
    /\ approval = NoApproval

\* agent.run(task): memory and the step counter are reset; last_tool_call is
\* set by __init__ only
StartRun ==
    /\ status # "RUNNING"
    /\ runs < MaxRuns
    /\ runs' = runs + 1
    /\ status' = "RUNNING"
    /\ step_number' = 0
    /\ memory' = <<>>
    /\ last_turn' = [NoTurn EXCEPT !.prev_call = last_turn.prev_call]
    /\ UNCHANGED <<backend, last_tool_call, approval, parseVars, sendVars>>

\* a loop that does not look at the budget
After_NoBudget(accepted_final, n) == IF accepted_final THEN "answer" ELSE "RUNNING"

\* the status after a turn
After(accepted_final, n) ==
    IF accepted_final THEN "answer"
    ELSE IF n >= MaxSteps THEN "budget-exhausted"
    ELSE "RUNNING"

\* one turn: the model replies with one of LoopReplies, the reply is parsed
\* (out), the calls go through execute_tool_call, the step is appended to memory
Step ==
    /\ status = "RUNNING"
    /\ step_number < MaxSteps
    /\ \E parsed \in LoopParse[backend], toolRes \in {"ok", "raise"} :
         LET out == parsed.out
             r   == IF out.kind = "ok"
                    THEN ExecAll(out.calls, last_tool_call, last_turn.prev_call,
                                 memory, toolRes)
                    ELSE [last |-> last_tool_call, prev |-> last_turn.prev_call,
                          log |-> <<>>]
             err == IF out.kind = "ok" THEN StepError(r.log) ELSE out.kind
             obs == IF out.kind = "ok" /\ r.log # <<>> /\ err = "None"
                    THEN Observations(ToolOutput) ELSE NoObservations
             fin == r.log # <<>> /\ r.log[Len(r.log)].outcome = "final"
         IN /\ memory' = Append(memory, ActionStep(Names(out.calls), obs, err))
            /\ last_tool_call' = r.last
            /\ step_number' = TurnsAfter(step_number, err)
            /\ status' = After(fin, TurnsAfter(step_number, err))
            /\ last_turn' = [kind |-> "turn", parse |-> out.kind, log |-> r.log,
                             ltc_before |-> last_tool_call, prev_call |-> r.prev,
                             tagged |-> parsed.tagged, error |-> None,
                             report |-> None,
                             asked |-> Asked(r.log, approval.required)]
    /\ UNCHANGED <<backend, runs, approval, parseVars, sendVars>>

\* the model call of a turn fails (generate raises e): the run ends with the
\* backend's error
ModelError ==
    /\ status = "RUNNING"
    /\ step_number < MaxSteps
    /\ status' = "fatal-error"
    /\ \E e \in GenerateErrors[backend] :
         last_turn' = [NoTurn EXCEPT !.kind = "fatal", !.ltc_before = last_tool_call,
                                     !.prev_call = last_turn.prev_call,
                                     !.error = e, !.report = FatalReport(e)]
    /\ UNCHANGED <<backend, step_number, memory, last_tool_call, runs, approval,
                   parseVars, sendVars>>

Next == StartRun \/ Step \/ ModelError

Spec == Init /\ [][Next]_vars

\* the same agent in each setting of approval
ApprovalInit ==
    /\ SendIdle
    /\ p_text = <<>>
    /\ p_backend = "none"
    /\ p_out = NoOut
    /\ HarnessIdle
    /\ backend \in AgentBackends
    /\ status = "idle"
    /\ step_number = 0
    /\ memory = <<>>
    /\ last_tool_call = None
    /\ runs = 0
    /\ last_turn = NoTurn
    /\ approval \in ApprovalSettings

ApprovalSpec == ApprovalInit /\ [][Next]_vars

\* the loop is one thread that blocks on the model call, which returns or
\* raises within the request timeout: a run that can take a turn takes it
FairSpec == Spec /\ WF_vars(Step \/ ModelError)

-----------------------------------------------------------------------------
(* Parser harness: one reply, parsed by one backend *)

AgentIdle ==
    /\ backend = "ollama"
    /\ status = "idle"
    /\ step_number = 0
    /\ memory = <<>>
    /\ last_tool_call = None
    /\ runs = 0
    /\ last_turn = NoTurn
    /\ approval = NoApproval

ParseInit ==
    /\ p_text \in Replies
    /\ p_backend = "none"
    /\ p_out = NoOut
    /\ HarnessIdle
    /\ AgentIdle
    /\ SendIdle

Parse(b) ==
    /\ p_backend = "none"
    /\ p_backend' = b
    /\ p_out' = parse_tool_calls(b, p_text)
    /\ UNCHANGED <<p_text, h_in, h_out, agentVars, sendVars>>

OllamaParse == Parse("ollama")
LlamaCppParse == Parse("llamacpp")
OpenRouterParse == Parse("openrouter")

ParseNext == OllamaParse \/ LlamaCppParse \/ OpenRouterParse

ParseSpec == ParseInit /\ [][ParseNext]_vars

-----------------------------------------------------------------------------
(* Function harness: the call signature over two calls *)

\* dicts nested in the arguments of a call
MaxNesting == 1

\* the string values of an argument
Leaves == {<<"x">>, <<"y">>}

RECURSIVE ContentValues(_)
\* write_file arguments whose content is a string or, up to depth d, a dict
\* of the same shape, each dict with its keys in either order
ContentValues(d) ==
    {[d |-> <<>>, v |-> leaf] : leaf \in Leaves} \cup
    (IF d = 0 THEN {}
     ELSE LET inner == ContentValues(d - 1)
              member(c) == IF c.d = <<>> THEN Pair("content", c.v)
                           ELSE Nested("content", c.d)
          IN {[d |-> <<member(c), Pair("path", <<"f">>)>>, v |-> <<>>] : c \in inner}
               \cup {[d |-> <<Pair("path", <<"f">>), member(c)>>, v |-> <<>>] : c \in inner})

\* the argument dicts: those of ContentValues that are dicts
SignedArguments == {c.d : c \in {x \in ContentValues(MaxNesting + 1) : x.d # <<>>}}

SignedCalls == {Invocation(n, a) : n \in {"write_file", "bash"}, a \in SignedArguments}

SignatureInit ==
    /\ h_in \in {[a |-> x, b |-> y] : x \in SignedCalls, y \in SignedCalls}
    /\ h_out = NotApplied
    /\ p_text = <<>>
    /\ p_backend = "none"
    /\ p_out = NoOut
    /\ AgentIdle
    /\ SendIdle

\* current_call_signature of the two calls
Sign ==
    /\ h_out = NotApplied
    /\ h_out' = [fn |-> "signature",
                 a |-> Signature(h_in.a.name, h_in.a.arguments),
                 b |-> Signature(h_in.b.name, h_in.b.arguments)]
    /\ UNCHANGED <<h_in, p_text, p_backend, p_out, agentVars, sendVars>>

SignatureSpec == SignatureInit /\ [][Sign]_vars

\* the longest observation text
MaxText == 2

RECURSIVE Texts_UpTo(_)
\* the texts of at most n characters, a character being a blank or a letter
Texts_UpTo(n) ==
    IF n = 0 THEN {<<>>}
    ELSE Texts_UpTo(n - 1)
           \cup {Append(t, c) : t \in Texts_UpTo(n - 1), c \in Whitespace \cup {"x"}}

\* recorded steps: with and without a reply, calls, observations and an error
RecordedSteps ==
    {[model_output |-> m, tool_calls |-> tc, observations |-> o, error |-> e] :
        m \in {"reply", "None"},
        tc \in {<<>>, <<"bash">>, <<"final_answer">>, <<"bash", "final_answer">>,
                <<"final_answer", "bash">>},
        o \in {NoObservations} \cup {Observations(t) : t \in Texts_UpTo(MaxText)},
        e \in {"None", "tool_error", "REPETITION"}}

ToMessagesInit ==
    /\ h_in \in RecordedSteps
    /\ h_out = NotApplied
    /\ p_text = <<>>
    /\ p_backend = "none"
    /\ p_out = NoOut
    /\ AgentIdle
    /\ SendIdle

\* step.to_messages() of a recorded step
Render ==
    /\ h_out = NotApplied
    /\ h_out' = [fn |-> "to_messages", messages |-> to_messages(h_in)]
    /\ UNCHANGED <<h_in, p_text, p_backend, p_out, agentVars, sendVars>>

ToMessagesSpec == ToMessagesInit /\ [][Render]_vars

-----------------------------------------------------------------------------
(* tests/test_validator.py: the assertions of a test case checked against    *)
(* the result of its execution.  An assertion is a record with the keys it   *)
(* has; a text (file content, final answer) is the set of the words in it.   *)

\* the longest list of assertions
MaxAssertions == 2

\* assertion.get(key) finds the key
Has(assertion, key) == key \in DOMAIN assertion

\* what a validator does: it returns {"passed": True}, returns
\* {"passed": False, "reason": ...} or raises
Passed == [outcome |-> "passed", reason |-> "None"]
Failed(reason) == [outcome |-> "failed", reason |-> reason]
Raises(e) == [outcome |-> "raised", reason |-> e]

\* the names of the tools called
Called(execution_result, tool_name) ==
    {i \in 1..Len(execution_result.tool_calls) : execution_result.tool_calls[i] = tool_name}

\* assertion.get("tool"), None when there is none
ToolOf(assertion) == IF Has(assertion, "tool") THEN assertion.tool ELSE "None"

\* os.path.exists(os.path.join(temp_dir, file_path))
Exists(execution_result, file_path) ==
    \E f \in execution_result.files : f.path = file_path

\* the content of the file
Content(execution_result, file_path) ==
    (CHOOSE f \in execution_result.files : f.path = file_path).content

\* the check of expected values against a text: any of them with match_any,
\* else all of them
Contains(assertion, text, reason) ==
    LET expected_values == IF Has(assertion, "values") THEN assertion.values ELSE {}
        match_any == Has(assertion, "match_any") /\ assertion.match_any
    IN IF match_any
       THEN (IF expected_values \cap text # {} THEN Passed ELSE Failed(reason))
       ELSE (IF expected_values \subseteq text THEN Passed ELSE Failed(reason))

\* the errors that name a tool
ToolErrors == {"Error executing tool bash"}

validate_tool_called(assertion, execution_result) ==
    IF Called(execution_result, ToolOf(assertion)) # {} THEN Passed
    ELSE Failed("not called")

validate_tool_not_called(assertion, execution_result) ==
    IF Called(execution_result, ToolOf(assertion)) # {} THEN Failed("should not have been called")
    ELSE Passed

validate_tool_call_count(assertion, execution_result) ==
    IF Has(assertion, "count")
         /\ Cardinality(Called(execution_result, ToolOf(assertion))) = assertion.count
    THEN Passed
    ELSE Failed("count")

validate_file_exists(assertion, execution_result) ==
    IF ~Has(assertion, "path") THEN Raises("TypeError")
    ELSE IF Exists(execution_result, assertion.path) THEN Passed
    ELSE Failed("does not exist")

validate_file_not_exists(assertion, execution_result) ==
    IF ~Has(assertion, "path") THEN Raises("TypeError")
    ELSE IF ~Exists(execution_result, assertion.path) THEN Passed
    ELSE Failed("should not exist")

validate_file_content_contains(assertion, execution_result) ==
    IF ~Has(assertion, "path") THEN Raises("TypeError")
    ELSE IF ~Exists(execution_result, assertion.path) THEN Failed("does not exist")
    ELSE Contains(assertion, Content(execution_result, assertion.path), "missing values")

validate_file_content_matches(assertion, execution_result) ==
    IF ~Has(assertion, "path") THEN Raises("TypeError")
    ELSE IF ~Exists(execution_result, assertion.path) THEN Failed("does not exist")
    ELSE IF ~Has(assertion, "pattern") THEN Raises("TypeError")
    ELSE IF assertion.pattern \in Content(execution_result, assertion.path) THEN Passed
    ELSE Failed("does not match")

validate_completed_successfully(assertion, execution_result) ==
    IF execution_result.errors # <<>> THEN Failed("completed with errors")
    ELSE IF execution_result.max_steps # 0
              /\ execution_result.steps > execution_result.max_steps
         THEN Failed("exceeded max steps")
    ELSE Passed

validate_final_answer_contains(assertion, execution_result) ==
    Contains(assertion, execution_result.final_answer, "missing values")

validate_no_tool_errors(assertion, execution_result) ==
    IF \E i \in 1..Len(execution_result.errors) : execution_result.errors[i] \in ToolErrors
    THEN Failed("tool errors") ELSE Passed

validate_steps_within(assertion, execution_result) ==
    IF ~Has(assertion, "max") THEN Raises("TypeError")
    ELSE IF execution_result.steps <= assertion.max THEN Passed
    ELSE Failed("exceeded step limit")

\* assertion.get("type"), None when there is none
TypeOf(assertion) == IF Has(assertion, "type") THEN assertion.type ELSE "None"

\* _validate_single_assertion: the validator of the type, a failure for a
\* type that has none
validate_single_assertion(assertion, execution_result) ==
    LET assertion_type == TypeOf(assertion)
    IN CASE assertion_type = "tool_called" -> validate_tool_called(assertion, execution_result)
         [] assertion_type = "tool_not_called" -> validate_tool_not_called(assertion, execution_result)
         [] assertion_type = "tool_call_count" -> validate_tool_call_count(assertion, execution_result)
         [] assertion_type = "file_exists" -> validate_file_exists(assertion, execution_result)
         [] assertion_type = "file_not_exists" -> validate_file_not_exists(assertion, execution_result)
         [] assertion_type = "file_content_contains" ->
                validate_file_content_contains(assertion, execution_result)
         [] assertion_type = "file_content_matches" ->
                validate_file_content_matches(assertion, execution_result)
         [] assertion_type = "completed_successfully" ->
                validate_completed_successfully(assertion, execution_result)
         [] assertion_type = "final_answer_contains" ->
                validate_final_answer_contains(assertion, execution_result)
         [] assertion_type = "no_tool_errors" -> validate_no_tool_errors(assertion, execution_result)
         [] assertion_type = "steps_within" -> validate_steps_within(assertion, execution_result)
         [] OTHER -> Failed("Unknown assertion type")

\* a tally that leaves out the assertions whose validator raised
IsFailure_ReturnedOnly(result) == result.outcome = "failed"

\* the else branch and the except branch: both count the assertion as failed
IsFailure(result) == result.outcome \in {"failed", "raised"}

RECURSIVE validate_assertions(_, _)
\* validate_assertions: passed, failed and the failures, over the assertions
\* in order
validate_assertions(assertions, execution_result) ==
    IF assertions = <<>> THEN [passed |-> 0, failed |-> 0, failures |-> <<>>]
    ELSE LET n      == Len(assertions)
             before == validate_assertions(SubSeq(assertions, 1, n - 1), execution_result)
             result == validate_single_assertion(assertions[n], execution_result)
         IN IF result.outcome = "passed"
            THEN [before EXCEPT !.passed = @ + 1]
            ELSE IF IsFailure(result)
            THEN [before EXCEPT !.failed = @ + 1,
                                !.failures = Append(@, [assertion |-> TypeOf(assertions[n]),
                                                        reason |-> result.reason])]
            ELSE before

\* test_status of run_tests
test_status(validation_result) ==
    IF validation_result.failed = 0 THEN "PASS" ELSE "FAIL"

\* assertions of every type, some without a key their validator needs, one
\* of a type that has no validator and one without a type
Assertions ==
    {[type |-> "tool_called", tool |-> "bash"],
     [type |-> "tool_not_called", tool |-> "bash"],
     [type |-> "tool_call_count", tool |-> "bash", count |-> 2],
     [type |-> "file_exists", path |-> "f"],
     [type |-> "file_exists"],
     [type |-> "file_not_exists", path |-> "f"],
     [type |-> "file_content_contains", path |-> "f", values |-> {"x"}],
     [type |-> "file_content_matches", path |-> "f", pattern |-> "x"],
     [type |-> "file_content_matches", path |-> "f"],
     [type |-> "completed_successfully"],
     [type |-> "final_answer_contains", values |-> {"done", "other"}, match_any |-> TRUE],
     [type |-> "no_tool_errors"],
     [type |-> "steps_within", max |-> 3],
     [type |-> "steps_within"],
     [type |-> "frobnicate"],
     [tool |-> "bash"]}

RECURSIVE AssertionLists(_)
\* the lists of at most n assertions
AssertionLists(n) ==
    IF n = 0 THEN {<<>>}
    ELSE AssertionLists(n - 1)
           \cup {Append(l, a) : l \in {x \in AssertionLists(n - 1) : Len(x) = n - 1},
                                a \in Assertions}

\* results of an execution: a run that did what was asked, a run that did
\* nothing and failed, a run over its budget
ExecutionResults ==
    {[tool_calls |-> <<"bash", "bash">>, final_answer |-> {"done"}, steps |-> 2,
      max_steps |-> 3, errors |-> <<>>, files |-> {[path |-> "f", content |-> {"x"}]}],
     [tool_calls |-> <<>>, final_answer |-> {}, steps |-> 1,
      max_steps |-> 3, errors |-> <<"Error executing tool bash">>, files |-> {}],
     [tool_calls |-> <<"bash">>, final_answer |-> {"other"}, steps |-> 4,
      max_steps |-> 3, errors |-> <<>>, files |-> {[path |-> "f", content |-> {}]}]}

ValidateInit ==
    /\ h_in \in {[assertions |-> l, execution_result |-> er] :
                    l \in AssertionLists(MaxAssertions), er \in ExecutionResults}
    /\ h_out = NotApplied
    /\ p_text = <<>>
    /\ p_backend = "none"
    /\ p_out = NoOut
    /\ AgentIdle
    /\ SendIdle

\* run_tests: the assertions of the test case are validated and the status
\* of the test is taken from the result
Validate ==
    /\ h_out = NotApplied
    /\ LET validation_result == validate_assertions(h_in.assertions, h_in.execution_result)
       IN h_out' = [fn |-> "validate_assertions",
                    validation_result |-> validation_result,
                    status |-> test_status(validation_result)]
    /\ UNCHANGED <<h_in, p_text, p_backend, p_out, agentVars, sendVars>>

ValidateSpec == ValidateInit /\ [][Validate]_vars

-----------------------------------------------------------------------------
(* _serialize_messages and the system prompt patch of generate.  A string is  *)
(* the sequence of its pieces, "" the empty sequence.                         *)

\* messages in one conversation
MaxMessages == 2

\* a ChatMessage object and a plain dict message
Obj(role, content) == [form |-> "object", role |-> role, content |-> content]
Dict(role, content) == [form |-> "dict", role |-> role, content |-> content]
\* content given as a list of {"type": "text", "text": ...} segments, as one
\* string, or as None
List(parts) == [kind |-> "list", parts |-> parts]
Str(s) == [kind |-> "str", parts |-> IF s = "" THEN <<>> ELSE <<s>>]
NoContent == [kind |-> "none", parts |-> <<>>]

\* bool(content) is False: None, "" and []
Falsy(content) == content.kind = "none" \/ content.parts = <<>>

\* role = getattr(m, "role", None) or (m.get("role") if dict else "user")
RawRole(m) ==
    IF m.role # "None" THEN m.role
    ELSE IF m.form = "dict" THEN "None"
    ELSE "user"

\* raw_content = getattr(m, "content", None) or (m.get("content") if dict
\* else str(m)): a dict message has no content attribute
RawContent(m) ==
    IF m.form = "object" /\ ~Falsy(m.content) THEN m.content
    ELSE IF m.form = "dict" THEN m.content
    ELSE Str("repr(message)")

\* "\n".join(content_parts)
RECURSIVE JoinLines(_)
JoinLines(parts) ==
    IF parts = <<>> THEN <<>>
    ELSE IF Len(parts) = 1 THEN parts
    ELSE <<Head(parts), "\n">> \o JoinLines(Tail(parts))

\* the list is joined, anything else goes through str()
Flatten(raw) ==
    IF raw.kind = "list" THEN JoinLines(raw.parts)
    ELSE IF raw.kind = "none" THEN <<"None">>
    ELSE raw.parts

\* str(role).split(".")[-1].lower()
RoleStr(role) ==
    CASE role = "MessageRole.SYSTEM" -> "system"
      [] role = "MessageRole.USER" -> "user"
      [] role = "MessageRole.ASSISTANT" -> "assistant"
      [] role = "MessageRole.TOOL_RESPONSE" -> "tool_response"
      [] role = "None" -> "none"
      [] OTHER -> role

\* tool_response becomes "tool" for Ollama and "user" for the other backends
WireRole(b, role_str) ==
    IF role_str = "tool_response"
    THEN (IF b = "ollama" THEN "tool" ELSE "user")
    ELSE role_str

\* a serializer that passes dict messages on as they are
Shares_DictsInPlace(m, i) == IF m.form = "dict" THEN i ELSE 0

\* serialized.append({"role": role_str, "content": content}): the wire message
\* is a new dict that shares storage with no input message (0), not with the
\* i-th (i)
Shares(m, i) == 0

serialize_messages(b, messages) ==
    [i \in 1..Len(messages) |->
        [role |-> WireRole(b, RoleStr(RawRole(messages[i]))),
         content |-> Flatten(RawContent(messages[i])),
         shares |-> Shares(messages[i], i)]]

\* STRICT_INSTRUCTIONS.strip() + "\n\nSystem information:\n" + tool list
SystemSection == <<"STRICT_INSTRUCTIONS", "\n\nSystem information:\n", "tool list">>

\* a patch that finds no system prompt
IsSystemRole_Never(role_str) == FALSE

\* if role_str == "system"
IsSystemRole(role_str) == role_str = "system"

\* step 2 of generate: every wire message with the system role gets the system
\* section as content; Ollama and OpenRouter also write the role back
PatchSystem(b, wire) ==
    [i \in 1..Len(wire) |->
        LET role_str == IF b = "llamacpp" THEN wire[i].role ELSE RoleStr(wire[i].role)
        IN [wire[i] EXCEPT !.role = role_str,
                           !.content = IF IsSystemRole(role_str) THEN SystemSection
                                       ELSE @]]

\* the messages of the request
Payload(b, messages) == PatchSystem(b, serialize_messages(b, messages))

\* the caller's messages once generate has written to the wire messages: an
\* input message that a wire message shares storage with shows what was written
ConversationAfter(b, messages) ==
    LET before == serialize_messages(b, messages)
        after  == PatchSystem(b, before)
    IN [i \in 1..Len(messages) |->
          IF \E j \in 1..Len(before) : before[j].shares = i
          THEN LET j == CHOOSE k \in 1..Len(before) : before[k].shares = i
               IN [messages[i] EXCEPT
                     !.role = after[j].role,
                     !.content = IF after[j].content = before[j].content THEN @
                                 ELSE [kind |-> "str", parts |-> after[j].content]]
          ELSE messages[i]]

\* the system prompt as a dict, the task, a tool response of two segments and
\* the ChatMessage generate returned for a reply that was empty
SystemMsg == Dict("system", Str("You are an agent"))
TaskMsg == Obj("MessageRole.USER", List(<<"task">>))
ToolMsg == Obj("MessageRole.TOOL_RESPONSE", List(<<"Call id: 1", "Observation: ok">>))
EmptyReplyMsg == Obj("assistant", Str(""))
Messages == {SystemMsg, TaskMsg, ToolMsg, EmptyReplyMsg}

RECURSIVE ConversationsOf(_)
ConversationsOf(n) ==
    IF n = 0 THEN {<<>>}
    ELSE LET shorter == ConversationsOf(n - 1)
         IN shorter \cup {Append(c, m) : c \in {x \in shorter : Len(x) = n - 1},
                                         m \in Messages}

Conversations == ConversationsOf(MaxMessages) \ {<<>>}

\* what the agent sends on the first turn
FirstTurn == <<SystemMsg, TaskMsg>>

-----------------------------------------------------------------------------
(* OpenRouterChat.generate: rate limiting and retry with backoff.  Time is    *)
(* counted in whole seconds.                                                  *)

RECURSIVE Pow2(_)
Pow2(n) == IF n <= 0 THEN 1 ELSE 2 * Pow2(n - 1)

\* a retry loop that waits the same time before every retry
Backoff_Fixed(a) == BaseDelay

\* delay = min(base_delay * (2 ** attempt), max_delay)
Backoff(a) == Min({BaseDelay * Pow2(a), MaxDelay})

\* a retry loop that gives up one attempt early
CanRetry_OneLess(a) == a < MaxRetries - 2

\* a loop that never retries
CanRetry_Never(a) == FALSE

\* if attempt < max_retries - 1
CanRetry(a) == a < MaxRetries - 1

\* a retry loop that takes every failure status for a rate limit
IsRateLimit_AnyStatus(resp) == resp \in {"429", "500"}

\* if resp.status_code == 429
IsRateLimit(resp) == resp = "429"

\* the sleep of the rate limiter at the head of generate
RateLimitSleep(now, last) ==
    IF RateLimitDelay > 0 /\ now - last < RateLimitDelay
    THEN RateLimitDelay - (now - last)
    ELSE 0

\* what the backend answers: 200 with a reply, 429, another status that is
\* not ok, or nothing within the timeout
Responses == {"200", "429", "500", "timeout"}

\* the same, and the 200 responses whose body is not the expected envelope: a
\* message that has no content, JSON that has no choices, a body that is not
\* JSON
OpenRouterResponses ==
    Responses \cup {"200_no_content", "200_no_choices", "200_not_json"}

SendInit ==
    /\ ChannelIdle
    /\ c_conv = FirstTurn
    /\ p_text = <<>>
    /\ p_backend = "none"
    /\ p_out = NoOut
    /\ HarnessIdle
    /\ backend = "openrouter"
    /\ status = "idle"
    /\ step_number = 0
    /\ memory = <<>>
    /\ last_tool_call = None
    /\ runs = 0
    /\ last_turn = NoTurn
    /\ approval = NoApproval

\* generate is called: the messages are serialized and patched and the rate
\* limiter sleeps until rate_limit_delay has passed since last_request_time
GenerateStart ==
    /\ s_pc \in {"idle", "returned", "raised"}
    /\ c_backend \in {"none", "openrouter"}
    /\ sends < MaxSends
    /\ \E idle \in {0, MaxIdle} :
         LET now == clock + idle
             sleep_time == RateLimitSleep(now, last_request_time)
         IN /\ clock' = now + sleep_time
            /\ s_log' = [requests |-> <<>>, gaps |-> s_log.gaps,
                         responses |-> <<>>, sleeps |-> <<>>, waited |-> sleep_time,
                         done_at |-> 0]
    /\ c_backend' = "openrouter"
    /\ c_payload' = Payload("openrouter", c_conv)
    /\ c_conv' = ConversationAfter("openrouter", c_conv)
    /\ sends' = sends + 1
    /\ attempt' = 0
    /\ s_pc' = "post"
    /\ s_result' = NoResult
    /\ UNCHANGED <<last_request_time, parseVars, agentVars>>

\* one pass of the retry loop: the request is posted and the response, one of
\* answers, handled
PostAnswered(answers) ==
    /\ s_pc = "post"
    /\ \E resp \in answers, latency \in {0, MaxLatency} :
         LET answered == IF resp = "timeout" THEN clock + RequestTimeout
                         ELSE clock + latency
             retry == IsRateLimit(resp) /\ CanRetry(attempt)
             delay == IF retry THEN Backoff(attempt) ELSE 0
             first == sends = 1 /\ s_log.requests = <<>>
             result == IF retry
                       THEN (IF attempt + 1 < MaxRetries THEN NoResult
                             ELSE Reply("str(data)"))
                       ELSE IF IsRateLimit(resp) THEN RuntimeError(resp, MaxRetries)
                       ELSE IF resp \in {"500", "timeout"} THEN RuntimeError(resp, 0)
                       ELSE OpenRouterExtract(resp)
         IN /\ last_request_time' = clock
            /\ clock' = answered + delay
            /\ s_log' = [s_log EXCEPT !.requests = Append(@, clock),
                                      !.gaps = IF first THEN @
                                               ELSE @ \cup {clock - last_request_time},
                                      !.responses = Append(@, resp),
                                      !.sleeps = IF retry THEN Append(@, delay) ELSE @,
                                      !.done_at = answered]
            /\ attempt' = IF retry THEN attempt + 1 ELSE attempt
            /\ s_pc' = IF result = NoResult THEN "post"
                       ELSE IF result.kind = "reply" THEN "returned"
                       ELSE "raised"
            /\ s_result' = result
    /\ UNCHANGED <<sends, c_conv, c_backend, c_payload, parseVars, agentVars>>

\* a pass of the retry loop against a backend whose 200 responses are well formed
Post == PostAnswered(Responses)

SendNext == GenerateStart \/ Post

SendSpec == SendInit /\ [][SendNext]_vars

\* generate runs in the caller's thread and every request is answered or
\* times out: a request that is due is posted
SendFairSpec == SendSpec /\ WF_vars(Post)

-----------------------------------------------------------------------------
(* The three generate methods over one conversation *)

\* the timeout of requests.post in OllamaChat.generate
OllamaTimeout == 300

ChannelInit ==
    /\ ChannelIdle
    /\ c_conv \in Conversations
    /\ p_text = <<>>
    /\ p_backend = "none"
    /\ p_out = NoOut
    /\ HarnessIdle
    /\ AgentIdle

\* OllamaChat.generate: serialize, patch, one post
OllamaGenerate ==
    /\ c_backend = "none"
    /\ c_backend' = "ollama"
    /\ c_payload' = Payload("ollama", c_conv)
    /\ c_conv' = ConversationAfter("ollama", c_conv)
    /\ \E resp \in OllamaResponses, latency \in {0, MaxLatency} :
         LET answered == IF resp = "timeout" THEN clock + OllamaTimeout
                         ELSE clock + latency
             result == OllamaResult(resp)
         IN /\ clock' = answered
            /\ s_log' = [NoLog EXCEPT !.requests = <<clock>>, !.responses = <<resp>>,
                                      !.done_at = answered]
            /\ s_result' = result
            /\ s_pc' = IF result.kind = "reply" THEN "returned" ELSE "raised"
    /\ sends' = sends + 1
    /\ UNCHANGED <<last_request_time, attempt, parseVars, agentVars>>

\* LlamaCppChat.generate: serialize, patch, one local completion
LlamaCppGenerate ==
    /\ c_backend = "none"
    /\ c_backend' = "llamacpp"
    /\ c_payload' = Payload("llamacpp", c_conv)
    /\ c_conv' = ConversationAfter("llamacpp", c_conv)
    /\ \E resp \in {"completion", "no_choices"}, latency \in {0, MaxLatency} :
         /\ clock' = clock + latency
         /\ s_log' = [NoLog EXCEPT !.done_at = clock + latency]
         /\ s_result' = IF resp = "completion" THEN Reply("content")
                        ELSE Exception("KeyError", "none", 0)
         /\ s_pc' = IF resp = "completion" THEN "returned" ELSE "raised"
    /\ sends' = sends + 1
    /\ UNCHANGED <<last_request_time, attempt, parseVars, agentVars>>

\* OpenRouterChat.generate on a backend object that made no request yet
OpenRouterGenerate == c_backend = "none" /\ GenerateStart

\* a pass of the retry loop against a backend that may answer anything
OpenRouterPost == PostAnswered(OpenRouterResponses)

ChannelNext ==
    OllamaGenerate \/ LlamaCppGenerate \/ OpenRouterGenerate \/ OpenRouterPost

ChannelSpec == ChannelInit /\ [][ChannelNext]_vars

-----------------------------------------------------------------------------
(* Properties of the guardrail (Spec) *)

\* the steps of the current run that precede the most recent turn
PriorSteps == SubSeq(memory, 1, Len(memory) - 1)

\* the non-final_answer tool calls recorded in a sequence of steps
RecordedInvocations(steps) ==
    Cardinality(UNION {{<<i, j>> : j \in {k \in 1..Len(steps[i].tool_calls) :
                                              steps[i].tool_calls[k] # "final_answer"}} :
                       i \in 1..Len(steps)})

TurnLog == last_turn.log

\* same tool name and same argument mapping
SameCall(a, b) ==
    /\ a.name = b.name
    /\ {<<p.k, p.v>> : p \in {a.arguments[i] : i \in 1..Len(a.arguments)}}
         = {<<p.k, p.v>> : p \in {b.arguments[i] : i \in 1..Len(b.arguments)}}

C2_RepetitionRejected ==
    \A i \in 1..Len(TurnLog) :
        LET e == TurnLog[i]
        IN e.name # "final_answer" =>
              ((e.outcome = "REPETITION")
                  <=> (e.prev # <<>> /\ SameCall(e.prev[1], e)))

\* in one turn a call was run after a different one and its repeat rejected
C2_Witness ==
    /\ Len(TurnLog) = 2
    /\ TurnLog[1].prev # <<>>
    /\ TurnLog[1].outcome = "executed"
    /\ TurnLog[2].outcome = "REPETITION"

\* C3: a final_answer call is never rejected as REPETITION, and a turn that
\* handles a final_answer call leaves last_tool_call as it was
C3_TerminalExempt ==
    \A i \in 1..Len(TurnLog) :
        TurnLog[i].name = "final_answer" =>
            /\ TurnLog[i].outcome # "REPETITION"
            /\ last_tool_call = last_turn.ltc_before

\* a final_answer identical to the final_answer of the step before, with a
\* signature stored in last_tool_call
C3_Witness ==
    /\ Len(memory) = 2
    /\ memory[1].tool_calls = <<"final_answer">>
    /\ TurnLog # <<>>
    /\ TurnLog[1].name = "final_answer"
    /\ last_tool_call # None

-----------------------------------------------------------------------------
(* Properties of parse_tool_calls (ParseSpec) *)

Parsed == p_backend # "none"

\* seg occurs in text
Occurs(seg, text) ==
    \E i \in 1..(Len(text) - Len(seg) + 1) : SubSeq(text, i, i + Len(seg) - 1) = seg

\* the tagged blocks of a text that hold a well-formed invocation
TaggedInvocationsAt(text) ==
    {i \in 1..Len(text) :
        \E inv \in Invocations :
            /\ i + Len(Tagged(Body(inv))) - 1 <= Len(text)
            /\ SubSeq(text, i, i + Len(Tagged(Body(inv))) - 1) = Tagged(Body(inv))}

\* the fenced blocks of a text that hold a well-formed invocation
FencedInvocationsAt(text) ==
    {i \in 1..Len(text) :
        \E inv \in Invocations :
            /\ i + Len(Fenced(Body(inv))) - 1 <= Len(text)
            /\ SubSeq(text, i, i + Len(Fenced(Body(inv))) - 1) = Fenced(Body(inv))}

HasTaggedBlock(text) ==
    \E i, j \in 1..Len(text) :
        i < j /\ text[i].t = "<tool_call>" /\ text[j].t = "</tool_call>"

\* the call without the record of where it was read from
Plain(c) == Invocation(c.name, c.arguments)

\* C4: a reply yields at most one tool call, and none when it holds two or
\* more invocations
C4_AtMostOneCall ==
    Parsed =>
        /\ Len(p_out.calls) <= 1
        /\ (Cardinality(TaggedInvocationsAt(p_text))
              + Cardinality(FencedInvocationsAt(p_text)) >= 2) => p_out.calls = <<>>

\* C5: parsing a reply with two or more tagged invocations raises the
\* exactly-one-tool-call error
C5_TwoTaggedRaise ==
    (Parsed /\ Cardinality(TaggedInvocationsAt(p_text)) >= 2) => p_out.kind = "ValueError"

Mixed(calls) ==
    /\ \E i \in 1..Len(calls) : IsFinal(calls[i])
    /\ \E i \in 1..Len(calls) : ~IsFinal(calls[i])

\* C6: the calls returned never hold final_answer together with another
\* call; when the candidates hold both, the result is the candidates without
\* the final_answer calls, in order; otherwise it is the candidates
C6_TerminalExclusive ==
    (Parsed /\ p_out.kind = "ok") =>
        /\ ~Mixed(p_out.calls)
        /\ Mixed(p_out.candidates) =>
              /\ \A i \in 1..Len(p_out.calls) : ~IsFinal(p_out.calls[i])
              /\ Len(p_out.calls)
                   = Cardinality({i \in 1..Len(p_out.candidates) : ~IsFinal(p_out.candidates[i])})
              /\ \E f \in [1..Len(p_out.calls) -> 1..Len(p_out.candidates)] :
                    /\ \A i \in 1..Len(p_out.calls) : p_out.candidates[f[i]] = p_out.calls[i]
                    /\ \A i, j \in 1..Len(p_out.calls) : i < j => f[i] < f[j]
        /\ ~Mixed(p_out.candidates) => p_out.calls = p_out.candidates

\* final_answer was removed from a reply that also called another tool
C6_Witness ==
    /\ Parsed
    /\ p_out.kind = "ok"
    /\ Mixed(p_out.candidates)
    /\ p_out.calls # <<>>

\* the replies that hold exactly one well-formed invocation inv
SingleInvocationReplies(inv) ==
    LET blocks == {Tagged(Body(inv)), Fenced(Body(inv)), Inline(inv)}
    IN blocks \cup {<<TXT>> \o b : b \in blocks} \cup {b \o <<TXT>> : b \in blocks}

\* C7: a reply holding exactly one well-formed invocation, in the tagged, the
\* fenced or the inline syntax, parses to exactly that invocation
C7_SingleInvocationReturned ==
    \A inv \in Invocations :
        (Parsed /\ p_text \in SingleInvocationReplies(inv)) =>
            /\ p_out.kind = "ok"
            /\ Len(p_out.calls) = 1
            /\ Plain(p_out.calls[1]) = inv

\* C8: a tagged block whose body lost trailing closing braces parses, after
\* the repair, to the call of the complete body
C8_BraceRepair ==
    \A inv \in Invocations : \A n \in Truncations :
        (p_backend = "ollama" /\ p_text = Tagged(Truncated(inv, n))) =>
            /\ p_out.kind = "ok"
            /\ Len(p_out.calls) = 1
            /\ Plain(p_out.calls[1]) = inv

\* the tagged matches of a backend, as its parser decodes them
TaggedMatches(b, text) ==
    IF b = "openrouter" THEN LazyTagged(text) ELSE GreedyTagged(text, 1)
Repaired(b, json_str) == IF b = "ollama" THEN AutoFix(json_str) ELSE json_str

Undecodable(b, text) ==
    {i \in 1..Len(TaggedMatches(b, text)) :
        ~JsonLoads(Repaired(b, TaggedMatches(b, text)[i])).ok}

C10_FencedOnlyFallback ==
    (Parsed /\ HasTaggedBlock(p_text)) =>
        \A i \in 1..Len(p_out.calls) : p_out.calls[i].src # "fenced"

-----------------------------------------------------------------------------
(* Properties of the step loop (Spec, FairSpec) *)

Last(seq) == seq[Len(seq)]

\* the call reached the tool executor
Dispatched(e) == e.outcome \in {"executed", "tool_error", "final"}

\* the call was rejected by the guardrail
Rejected(e) == e.outcome \in {"REPETITION", "HALLUCINATION"}

\* the guardrail accepted the call and it is not the terminal answer
AcceptedNonTerminal(e) == ~Rejected(e) /\ e.name # "final_answer"

Entries(log, P(_)) == {i \in 1..Len(log) : P(log[i])}

\* C11: in every turn the tool executor is invoked at most once, and only
\* after the reply has parsed to a call which the guardrail accepted; a call
\* the guardrail rejected is not dispatched
C11_DispatchOrdering ==
    last_turn.kind = "turn" =>
        /\ Cardinality(Entries(TurnLog, Dispatched)) <= 1
        /\ \A i \in Entries(TurnLog, Dispatched) :
              last_turn.parse = "ok" /\ ~Rejected(TurnLog[i])

\* C12: within a run turns taken never decreases, every loop iteration (also
\* one that ends in a parser error or a guardrail rejection) adds exactly one
\* to it, and it never exceeds the step budget
C12_TurnsTaken ==
    [][ /\ step_number' <= MaxSteps
        /\ (runs' = runs => step_number' >= step_number)
        /\ (Len(memory') = Len(memory) + 1 => step_number' = step_number + 1)
        /\ (runs' = runs /\ step_number' # step_number
                => Len(memory') = Len(memory) + 1) ]_vars

C12_Witness ==
    /\ step_number = MaxSteps
    /\ \E i \in 1..Len(memory) : memory[i].error = "AttributeError"
    /\ \E i \in 1..Len(memory) : memory[i].error \in {"REPETITION", "HALLUCINATION"}

Terminated == {"answer", "budget-exhausted", "fatal-error"}

\* the most recent turn ended with an accepted final answer
AnswerAccepted ==
    last_turn.kind = "turn" /\ TurnLog # <<>> /\ Last(TurnLog).outcome = "final"

\* C13: every run leaves RUNNING and ends as answer, budget-exhausted or
\* fatal-error; when turns taken reaches the budget with no final answer
\* accepted the run ends as budget-exhausted, which is not an answer, and no
\* further model call is made
C13_RunEnds ==
    /\ [](status \in {"idle", "RUNNING"} \cup Terminated)
    /\ ((status = "RUNNING") ~> (status \in Terminated))
    /\ []((status # "idle" /\ step_number = MaxSteps /\ ~AnswerAccepted)
             => status = "budget-exhausted")
    /\ [](status = "budget-exhausted"
             => /\ step_number = MaxSteps
                /\ ~AnswerAccepted
                /\ ~ENABLED Step
                /\ ~ENABLED ModelError)

C13_Witness ==
    /\ status = "budget-exhausted"
    /\ Len(memory) = MaxSteps
    /\ runs = MaxRuns

\* C14: after a turn in which the guardrail rejected a call the run has not
\* ended with an answer or fatally; the step renders as the assistant reply
\* followed by exactly one tool response, which carries the reason; and
\* while budget remains the run is RUNNING and the next turn can be taken
C14_RejectionNotFatal ==
    (last_turn.kind = "turn" /\ TurnLog # <<>> /\ Rejected(Last(TurnLog))) =>
        LET msgs == to_messages(Last(memory))
        IN /\ status \in {"RUNNING", "budget-exhausted"}
           /\ Len(msgs) = 2
           /\ msgs[1].role = "assistant"
           /\ msgs[2].role = "tool-response"
           /\ \E k \in 1..Len(msgs[2].content) :
                 msgs[2].content[k] = Last(TurnLog).outcome
           /\ (step_number < MaxSteps => status = "RUNNING" /\ ENABLED Step)

\* a terminal answer on the first turn was rejected and the run goes on
C14_Witness ==
    /\ last_turn.kind = "turn"
    /\ step_number = 1
    /\ TurnLog # <<>>
    /\ Last(TurnLog).outcome = "HALLUCINATION"
    /\ status = "RUNNING"

\* C15: a turn whose reply holds two tagged blocks ends with the parser's
\* error recorded and rendered as a corrective message, no call handed on,
\* last_tool_call and the recorded tool calls as before, and the run not
\* ended with an answer
C15_TwoTaggedFrame ==
    (last_turn.kind = "turn" /\ last_turn.tagged >= 2) =>
        /\ last_turn.parse = "ValueError"
        /\ Last(memory).error = "ValueError"
        /\ Len(to_messages(Last(memory))) = 2
        /\ TurnLog = <<>>
        /\ last_tool_call = last_turn.ltc_before
        /\ ActualToolCalls(memory) = ActualToolCalls(PriorSteps)
        /\ status \in {"RUNNING", "budget-exhausted"}

\* C16: over a turn last_tool_call changes only to the signature of a
\* non-terminal call the guardrail accepted in that turn, and the count of
\* tool invocations the next final_answer check uses grows by exactly the
\* number of such calls
C16_FrameOfGuardrailState ==
    last_turn.kind = "turn" =>
        LET acc == Entries(TurnLog, AcceptedNonTerminal)
        IN /\ ActualToolCalls(memory) = ActualToolCalls(PriorSteps) + Cardinality(acc)
           /\ (acc = {} => last_tool_call = last_turn.ltc_before)
           /\ (acc # {} =>
                 LET e == TurnLog[Max(acc)]
                 IN last_tool_call = Signature(e.name, e.arguments))

\* C17: a run starts with last_tool_call empty, and the first call of a run,
\* when it is not the terminal answer, is not rejected as a repetition
C17_FreshRun ==
    /\ (status = "RUNNING" /\ step_number = 0) => last_tool_call = None
    /\ (last_turn.kind = "turn" /\ Len(memory) = 1 /\ TurnLog # <<>>)
           => TurnLog[1].outcome # "REPETITION"

-----------------------------------------------------------------------------
(* Properties of OpenRouterChat.generate (SendSpec, SendFairSpec) *)

\* the responses are k times 429 and then 200
RateLimitedThenOk(responses) ==
    /\ responses # <<>>
    /\ Last(responses) = "200"
    /\ \A i \in 1..(Len(responses) - 1) : responses[i] = "429"

AllRateLimited(responses) == \A i \in 1..Len(responses) : responses[i] = "429"

\* C18: two consecutive requests of the channel, retries after a 429
\* included, are never less than rate_limit_delay apart
C18_MinSpacing == \A g \in s_log.gaps : g >= RateLimitDelay

\* C19: when the backend answers 429 k times (k < max_retries) and then 200,
\* generate returns the reply after exactly k + 1 requests, having slept
\* before retry i for min(base_delay * 2^i, max_delay), i = 0..k-1, a
\* non-decreasing sequence that stays within max_delay
C19_BackoffThenSuccess ==
    RateLimitedThenOk(s_log.responses) =>
        LET k == Len(s_log.responses) - 1
            slept == s_log.sleeps
        IN /\ k < MaxRetries
           /\ s_pc = "returned"
           /\ s_result.kind = "reply"
           /\ s_result.content = "content"
           /\ Len(s_log.requests) = k + 1
           /\ Len(slept) = k
           /\ \A i \in 0..(k - 1) :
                 /\ slept[i + 1] = (IF BaseDelay * (2 ^ i) < MaxDelay
                                    THEN BaseDelay * (2 ^ i) ELSE MaxDelay)
                 /\ slept[i + 1] <= MaxDelay
                 /\ s_log.requests[i + 2] - s_log.requests[i + 1] >= slept[i + 1]
           /\ \A i \in 1..(k - 1) : slept[i] <= slept[i + 1]

C19_Witness ==
    /\ RateLimitedThenOk(s_log.responses)
    /\ Len(s_log.responses) = MaxRetries
    /\ s_pc = "returned"

\* C20: a generate call ends, after at most max_retries requests; when every
\* request was answered 429 it raises, right after the last response and
\* without a further sleep, the error that carries the status, the backend's
\* message and the number of attempts, and returns no reply
C20_SendTerminates ==
    /\ [](Len(s_log.requests) <= MaxRetries)
    /\ ((s_pc = "post") ~> (s_pc \in {"returned", "raised"}))
    /\ []((s_pc # "post" /\ s_log.responses # <<>> /\ AllRateLimited(s_log.responses))
             => /\ s_pc = "raised"
                /\ s_result.kind = "RuntimeError"
                /\ s_result.status = "429"
                /\ s_result.content = "backend message"
                /\ s_result.attempts = Len(s_log.requests)
                /\ Len(s_log.requests) = MaxRetries
                /\ Len(s_log.sleeps) = MaxRetries - 1
                /\ clock = s_log.done_at)

C20_Witness ==
    /\ s_pc = "raised"
    /\ s_result.status = "429"
    /\ sends = MaxSends

-----------------------------------------------------------------------------
(* Claims about the three generate methods *)

Finished == s_pc \in {"returned", "raised"} /\ c_backend # "none"

\* C21: a status that is not ok and not 429, or a request timeout, is never
\* retried: the failing attempt made one request, no backoff sleep follows it
\* (the only sleeps are those of earlier 429 responses) and the error is raised
\* at once with that status
C21_NoRetryOfOtherErrors ==
    (s_log.responses # <<>> /\ Last(s_log.responses) \in {"500", "timeout"})
    => /\ s_pc = "raised"
       /\ s_result.kind \in {"RuntimeError", "Timeout"}
       /\ s_result.status = Last(s_log.responses)
       /\ Len(s_log.requests) = Len(s_log.responses)
       /\ \A i \in 1..(Len(s_log.responses) - 1) : s_log.responses[i] = "429"
       /\ Len(s_log.sleeps) = Len(s_log.responses) - 1
       /\ clock = s_log.done_at

C21_Witness ==
    /\ c_backend = "openrouter"
    /\ s_log.responses = <<"429", "500">>
    /\ s_pc = "raised"

WellFormed == {"200", "200_response"}

\* C24: a generate call whose last response is a failure status, a timeout or
\* a 200 with a malformed envelope raises, and a call that returns never
\* returns empty or substitute content
C24_FailuresSurface ==
    (Finished /\ s_log.responses # <<>>)
    => /\ Last(s_log.responses) \notin WellFormed => s_pc = "raised"
       /\ s_pc = "returned" => s_result.content = "content"

\* the positions of the request that hold the system section
SystemSections(payload) ==
    {i \in 1..Len(payload) : payload[i].content = SystemSection}

\* the positions of the conversation that hold a system-role message
SystemMessages(messages) ==
    {i \in 1..Len(messages) : RoleStr(messages[i].role) = "system"}

\* C25 as stated: whatever the conversation, the request holds the system
\* section exactly once
C25_SystemSectionOnce ==
    c_backend # "none" => Cardinality(SystemSections(c_payload)) = 1

\* C25, amended: the request holds the system section in place of every
\* system-role message of the conversation and nowhere else, so exactly once
\* when the conversation has exactly one system-role message
C25_SystemSectionPerSystemMessage ==
    c_backend # "none" => SystemSections(c_payload) = SystemMessages(c_conv)

C25_Witness ==
    /\ c_backend # "none"
    /\ c_conv = <<SystemMsg, SystemMsg>>
    /\ Cardinality(SystemSections(c_payload)) = 2

\* the role a message is to have on the wire
ExpectedRole(b, m) ==
    IF RoleStr(m.role) = "tool_response"
    THEN (IF b = "ollama" THEN "tool" ELSE "user")
    ELSE RoleStr(m.role)

\* C26: serialization gives one wire message per message, in order, with the
\* role of the backend's vocabulary and the text segments joined by newline
C26_Serialization ==
    c_backend # "none"
    => LET wire == serialize_messages(c_backend, c_conv)
       IN /\ Len(wire) = Len(c_conv)
          /\ \A i \in 1..Len(c_conv) :
               /\ wire[i].role = ExpectedRole(c_backend, c_conv[i])
               /\ wire[i].content = JoinLines(c_conv[i].content.parts)

\* C27: no generate call, returning or raising, changes a message of the
\* conversation it was given
C27_ConversationUntouched == [][c_conv' = c_conv]_vars

C27_Witness ==
    /\ Finished
    /\ s_pc = "raised"
    /\ c_conv = <<SystemMsg, TaskMsg>>
    /\ c_payload[1].content = SystemSection
    /\ c_payload[1].content # Flatten(RawContent(c_conv[1]))

-----------------------------------------------------------------------------
(* Claims about the failed model call *)

\* C23: a turn whose model call raised ends the run as fatal-error in that
\* turn: nothing was parsed or dispatched, no step was recorded, no further
\* turn or model call can follow in the run, and the run reports the very
\* exception generate raised
C23_FatalModelError ==
    last_turn.kind = "fatal"
    => /\ status = "fatal-error"
       /\ last_turn.parse = "none"
       /\ last_turn.log = <<>>
       /\ last_tool_call = last_turn.ltc_before
       /\ Len(memory) = step_number
       /\ ~ENABLED Step
       /\ ~ENABLED ModelError
       /\ last_turn.error \in GenerateErrors[backend]
       /\ last_turn.report = last_turn.error

C23_Witness ==
    /\ last_turn.kind = "fatal"
    /\ backend = "openrouter"
    /\ last_turn.error = RuntimeError("429", MaxRetries)
    /\ step_number = 1

-----------------------------------------------------------------------------
(* Claims about approval *)

\* C28: in a turn where approval is required and the user rejects, no call
\* the guardrail accepted, other than the final answer, is dispatched
C28_RejectionReplacesDispatch ==
    (last_turn.kind = "turn" /\ approval.required /\ approval.policy = "reject")
    => \A i \in Entries(TurnLog, AcceptedNonTerminal) : ~Dispatched(TurnLog[i])

-----------------------------------------------------------------------------
(* Claims about the three parsers taken together *)

\* what a parse comes to: the calls returned, or an error
Outcome(b, text) ==
    LET out == parse_tool_calls(b, text)
    IN IF out.kind = "ok" THEN [kind |-> "ok", calls |-> out.calls]
       ELSE [kind |-> "error", calls |-> <<>>]

\* C31: whatever the reply, the parse_tool_calls of Ollama, llama.cpp and
\* OpenRouter come to the same outcome: the same calls, or an error in the
\* same cases
C31_SameOutcomeOnEveryBackend ==
    Parsed => \A b \in Backends : Outcome(b, p_text) = Outcome(p_backend, p_text)

-----------------------------------------------------------------------------
(* Claims about the call signature *)

RECURSIVE SameMapping(_, _)
\* the two dicts have the same keys with the same values, dicts among the
\* values compared the same way, whatever the order of the keys
SameMapping(a, b) ==
    /\ Len(a) = Len(b)
    /\ \A i \in 1..Len(a) : \E j \in 1..Len(b) :
          /\ a[i].k = b[j].k
          /\ IsNested(a[i]) = IsNested(b[j])
          /\ IF IsNested(a[i]) /\ IsNested(b[j]) THEN SameMapping(a[i].d, b[j].d)
             ELSE IF IsNested(a[i]) \/ IsNested(b[j]) THEN FALSE
             ELSE a[i].v = b[j].v

\* C32: the signatures of two calls are equal exactly when the calls have the
\* same name and the same argument mapping, in whatever order the keys are
\* written at any depth
C32_SignatureIsCanonical ==
    h_out # NotApplied
    => ((h_out.a = h_out.b)
           <=> (h_in.a.name = h_in.b.name
                  /\ SameMapping(h_in.a.arguments, h_in.b.arguments)))

\* two calls that differ in the order of the keys of a nested dict only
C32_Witness ==
    /\ h_out # NotApplied
    /\ h_out.a = h_out.b
    /\ h_in.a.arguments[1].k = h_in.b.arguments[1].k
    /\ IsNested(h_in.a.arguments[1])
    /\ IsNested(h_in.b.arguments[1])
    /\ h_in.a.arguments[1].d # h_in.b.arguments[1].d

-----------------------------------------------------------------------------
(* Claims about what the guardrail counts and remembers *)

\* no call of these steps ran to completion: each step has no call at all, or
\* one call and an error
NothingRan(steps) ==
    \A i \in 1..Len(steps) :
        \/ steps[i].tool_calls = <<>>
        \/ (Len(steps[i].tool_calls) = 1 /\ steps[i].error # "None")

\* C33: a final answer is not accepted when no call of the earlier steps of
\* the run ran to completion
C33_AnswerNeedsExecutedCall ==
    AnswerAccepted => ~NothingRan(PriorSteps)

\* the call's tool was looked up and the call did not complete
FailedInTool(e) == e.name # "final_answer" /\ e.outcome \in {"tool_error", "unknown_tool"}

\* C34: a non-final_answer call whose execution failed is the remembered
\* last call, and the same call in the next turn that has calls is rejected
\* as REPETITION
C34_FailedCallNotRetried ==
    /\ [](TurnLog # <<>> /\ FailedInTool(Last(TurnLog))
            => last_tool_call = Signature(Last(TurnLog).name, Last(TurnLog).arguments))
    /\ [][(/\ Len(memory') = Len(memory) + 1
           /\ TurnLog # <<>>
           /\ FailedInTool(Last(TurnLog))
           /\ last_turn'.log # <<>>
           /\ SameCall(last_turn'.log[1], Last(TurnLog)))
          => last_turn'.log[1].outcome = "REPETITION"]_vars

\* the call of a turn failed in its tool and the same call of the next turn
\* was rejected
C34_Witness ==
    /\ Len(memory) >= 2
    /\ memory[Len(memory) - 1].error \in {"tool_error", "unknown_tool"}
    /\ Len(memory[Len(memory) - 1].tool_calls) = 1
    /\ TurnLog # <<>>
    /\ TurnLog[1].outcome = "REPETITION"
    /\ TurnLog[1].name = memory[Len(memory) - 1].tool_calls[1]
    /\ TurnLog[1].prev # <<>>
    /\ SameCall(TurnLog[1].prev[1], TurnLog[1])

-----------------------------------------------------------------------------
(* Claims about repair and failure in the parsers *)

\* the replies whose one tagged block has the body of inv
TaggedReplies(inv) ==
    {Tagged(Body(inv)), <<TXT>> \o Tagged(Body(inv)), Tagged(Body(inv)) \o <<TXT>>}

\* C35: the brace repair leaves the body of a well-formed invocation as it
\* is, and a reply whose tagged block has such a body parses on the repairing
\* backend to that invocation
C35_RepairKeepsValidBody ==
    \A inv \in Invocations :
        (p_backend = "ollama" /\ p_text \in TaggedReplies(inv)) =>
            /\ AutoFix(Body(inv)) = Body(inv)
            /\ p_out.kind = "ok"
            /\ Names(p_out.calls) = <<inv.name>>
            /\ p_out.calls[1].arguments = inv.arguments

\* C36: parsing raises nothing but the error of several tagged blocks, and a
\* reply with at most one tagged block is parsed without an error
C36_OnlyMultipleInvocationRaises ==
    Parsed =>
        /\ p_out.kind \in {"ok", "ValueError"}
        /\ (TaggedBlocks(p_text) <= 1 => p_out.kind = "ok")

-----------------------------------------------------------------------------
(* Claims about the messages of a recorded step *)

Rendered == h_out # NotApplied /\ h_out.fn = "to_messages"

\* t is text without the blanks around it
IsTrimOf(t, text) ==
    /\ t = <<>> \/ (t[1] # " " /\ t[Len(t)] # " ")
    /\ \E i \in 0..Len(text), j \in 0..Len(text) :
          /\ i + Len(t) + j = Len(text)
          /\ SubSeq(text, i + 1, i + Len(t)) = t
          /\ \A k \in (1..i) \cup ((i + Len(t) + 1)..Len(text)) : text[k] = " "

\* the position in the rendering of the message for the observations
ObservationAt == IF h_in.model_output # "None" THEN 2 ELSE 1

-----------------------------------------------------------------------------
(* Claims about the validation of a test case *)

Validated == h_out # NotApplied /\ h_out.fn = "validate_assertions"

\* the types with a validator
KnownTypes ==
    {"tool_called", "tool_not_called", "tool_call_count", "file_exists",
     "file_not_exists", "file_content_contains", "file_content_matches",
     "completed_successfully", "final_answer_contains", "no_tool_errors",
     "steps_within"}

\* the positions of the assertions that did not pass: of a type without a
\* validator, or the validator returned a failure or raised
NotPassed ==
    {i \in 1..Len(h_in.assertions) :
        \/ TypeOf(h_in.assertions[i]) \notin KnownTypes
        \/ validate_single_assertion(h_in.assertions[i], h_in.execution_result).outcome
              # "passed"}

\* C38: passed and failed add up to the number of assertions, failed is the
\* number of assertions that did not pass, unknown types and raising
\* validators among them, failures has one entry for each of them in order,
\* and the status is PASS exactly when failed is 0
C38_ValidationCounts ==
    Validated =>
        LET v == h_out.validation_result
        IN /\ v.passed + v.failed = Len(h_in.assertions)
           /\ v.failed = Cardinality(NotPassed)
           /\ Len(v.failures) = v.failed
           /\ \A k \in 1..Len(v.failures) :
                 \E i \in NotPassed :
                     /\ Cardinality({j \in NotPassed : j <= i}) = k
                     /\ v.failures[k].assertion = TypeOf(h_in.assertions[i])
           /\ (h_out.status = "PASS") <=> (v.failed = 0)
           /\ h_out.status \in {"PASS", "FAIL"}

\* an assertion whose validator raises and one of an unknown type were
\* validated after each other
C38_Witness ==
    /\ Validated
    /\ Len(h_in.assertions) = 2
    /\ validate_single_assertion(h_in.assertions[1], h_in.execution_result).outcome = "raised"
    /\ TypeOf(h_in.assertions[2]) = "frobnicate"
    /\ h_out.validation_result.failed = 2
    /\ h_out.status = "FAIL"

=============================================================================
